---- MODULE Spec2Model ----
(***************************************************************************)
(* IMU UART frame verifier (imu_uart_crc_check.py): the firmware-compatible *)
(* CRC32 (reflected polynomial 0xEDB88320, seed 1, no final xor), the       *)
(* byte-at-a-time resynchronizing frame scan of analyze_file and the        *)
(* statistics main prints; find_offsets of imu_uart_tool.py;                *)
(* count_keyword_logs and classify of odometer_vel_rotate_check.py; and     *)
(* calc_lead_ratio of odometer_root_cause_stats.py.                         *)
(*                                                                          *)
(* A 32-bit unsigned value is the record [hi |-> bits 31..16,               *)
(* lo |-> bits 15..0]: TLC's integers are 32-bit signed, so a uint32 does   *)
(* not fit one of them.  Bytes are integers 0..255, a bytes object is a     *)
(* sequence of bytes; Python's 0-based index k is the sequence index k+1.   *)
(***************************************************************************)
EXTENDS Integers, Sequences, FiniteSets, TLC

VARIABLES
    CRC32_TAB,   \* module global: the 256-entry lookup table
    buf,         \* crc32_fw: argument buf
    seed,        \* crc32_fw: the value the parameter crc had at the call
    crc,         \* crc32_fw: the accumulator (parameter crc, reassigned)
    n,           \* crc32_fw: number of bytes of buf consumed by the for loop
    prev,        \* results of the earlier crc32_fw calls on the same arguments
    cpc,         \* crc32_fw: "idle", "loop", "returned"
    data,        \* analyze_file: the bytes read from the file
    frame_size,  \* analyze_file: parameter frame_size
    i,           \* analyze_file: cursor
    ok,          \* analyze_file: valid-frame count
    bad,         \* analyze_file: header hits whose CRC failed
    ts,          \* analyze_file: counters of the valid frames
    offsets,     \* analyze_file: offsets of the valid frames
    visited,     \* analyze_file: the values i had at each run of the loop body
    pc,          \* analyze_file: "idle", "scan", "done", "raised"
    report,      \* main: the statistics printed after analyze_file returned
    calls,       \* the analyze_file calls that ended: arguments and outcome
    pattern,     \* find_offsets: argument pattern
    limit,       \* find_offsets: argument limit
    out,         \* find_offsets: the offsets found
    fpc,         \* find_offsets: "idle", "find", "returned"
    paths,       \* count_keyword_logs: the warning and error logs given to it
    start,       \* count_keyword_logs: start of the time window, <<>> for None
    end,         \* count_keyword_logs: end of the time window, <<>> for None
    stats,       \* the Stats that analyze_log returned
    hit_count,   \* count_keyword_logs: hits per keyword
    hit_lines,   \* count_keyword_logs: the first lines that hit
    path_no,     \* count_keyword_logs: number of paths done with
    line_no,     \* count_keyword_logs: number of lines read of the current path
    verdict,     \* print_report: what classify returned
    vpc,         \* odometer_vel_rotate_check: "idle", "count", "counted", "reported"
    event_times, \* calc_lead_ratio: argument event_times
    fail_times,  \* calc_lead_ratio: argument fail_times
    window_sec,  \* calc_lead_ratio: argument window_sec
    ev,          \* calc_lead_ratio: the sorted event timestamps
    hit,         \* calc_lead_ratio: fail times with an event shortly before
    fail_no,     \* calc_lead_ratio: number of fail times the loop has taken
    ratio,       \* calc_lead_ratio: the value returned
    lpc          \* calc_lead_ratio: "idle", "sort", "loop", "returned"

vars == <<CRC32_TAB, buf, seed, crc, n, prev, cpc,
          data, frame_size, i, ok, bad, ts, offsets, visited, pc,
          report, calls, pattern, limit, out, fpc,
          paths, start, end, stats, hit_count, hit_lines, path_no, line_no,
          verdict, vpc,
          event_times, fail_times, window_sec, ev, hit, fail_no, ratio, lpc>>

crcVars == <<buf, seed, crc, n, prev, cpc>>
scanVars == <<data, frame_size, i, ok, bad, ts, offsets, visited, pc>>
mainVars == <<report, calls>>
findVars == <<pattern, limit, out, fpc>>
velVars == <<paths, start, end, stats, hit_count, hit_lines, path_no, line_no,
             verdict, vpc>>
leadVars == <<event_times, fail_times, window_sec, ev, hit, fail_no, ratio, lpc>>

----------------------------------------------------------------------------
(* Unsigned 32-bit words and Python's bit operators on them.               *)

RECURSIVE XorBits(_, _, _)
XorBits(a, b, w) ==
    IF w = 0 THEN 0
    ELSE (((a % 2) + (b % 2)) % 2) + (2 * XorBits(a \div 2, b \div 2, w - 1))

XorNib == [a \in 0..15 |-> [b \in 0..15 |-> XorBits(a, b, 4)]]

XorByte ==
    [a \in 0..255 |-> [b \in 0..255 |->
        (16 * XorNib[a \div 16][b \div 16]) + XorNib[a % 16][b % 16]]]

Xor8(a, b) == XorByte[a][b]

Xor16(a, b) == (256 * Xor8(a \div 256, b \div 256)) + Xor8(a % 256, b % 256)

U32(h, l) == [hi |-> h, lo |-> l]

IsU32(x) == x.hi \in 0..65535 /\ x.lo \in 0..65535

\* x ^ y
Xor32(x, y) == U32(Xor16(x.hi, y.hi), Xor16(x.lo, y.lo))

\* x >> 1
Shr1(x) == U32(x.hi \div 2, ((x.hi % 2) * 32768) + (x.lo \div 2))

\* x >> 8
Shr8(x) == U32(x.hi \div 256, ((x.hi % 256) * 256) + (x.lo \div 256))

\* x & 0xFF
LowByte(x) == x.lo % 256

\* x & 0xFFFFFFFF
Mask32(x) == U32(x.hi % 65536, x.lo % 65536)

POLY_HI == 60856   \* 0xEDB8
POLY_LO == 33568   \* 0x8320
POLY == U32(POLY_HI, POLY_LO)

----------------------------------------------------------------------------
(* build_crc32_table and crc32_fw.                                         *)

\* a left-shifting (non-reflected) round, driven by the high bit
TableRoundShl(c) ==
    IF c.hi \div 32768 = 1
    THEN Xor32(POLY, U32(((c.hi * 2) % 65536) + (c.lo \div 32768), (c.lo * 2) % 65536))
    ELSE U32(((c.hi * 2) % 65536) + (c.lo \div 32768), (c.lo * 2) % 65536)

\* c = 0xEDB88320 ^ (c >> 1) if (c & 1) else (c >> 1)
TableRound(c) == IF c.lo % 2 = 1 THEN Xor32(POLY, Shr1(c)) ELSE Shr1(c)

RECURSIVE TableRounds(_, _)
TableRounds(c, k) == IF k = 0 THEN c ELSE TableRounds(TableRound(c), k - 1)

\* table = [c(i) for i in range(256)], c(i) = i after 8 rounds
build_crc32_table == [x \in 0..255 |-> TableRounds(U32(0, x), 8)]

\* the update without consuming the processed byte (crc >> 8 dropped)
CrcUpdateNoShift(c, b) == Xor32(CRC32_TAB[LowByte(Xor32(c, U32(0, b)))], c)

\* crc = CRC32_TAB[(crc ^ b) & 0xFF] ^ (crc >> 8)
CrcUpdate(c, b) == Xor32(CRC32_TAB[LowByte(Xor32(c, U32(0, b)))], Shr8(c))

\* for b in buf: crc = ...   (s.n bytes consumed, s.crc the accumulator)
RECURSIVE CrcLoop(_, _)
CrcLoop(bs, s) ==
    IF s.n >= Len(bs) THEN s.crc
    ELSE CrcLoop(bs, [n |-> s.n + 1, crc |-> CrcUpdate(s.crc, bs[s.n + 1])])

\* a final xor with 0xFFFFFFFF, as the canonical CRC32 ends
CrcReturnValueFinalXor(c) == Xor32(Mask32(c), U32(65535, 65535))

\* return crc & 0xFFFFFFFF
CrcReturnValue(c) == Mask32(c)

\* crc32_fw(buf, crc) as a function of its arguments and the table
crc32_fw(bs, c) == CrcReturnValue(CrcLoop(bs, [n |-> 0, crc |-> c]))

----------------------------------------------------------------------------
(* The firmware side: the bit-serial reflected CRC32 that produces the     *)
(* checksums of the frames on the wire.  It uses no lookup table: of the   *)
(* code above it shares the xor and the polynomial only.                   *)

RefRound(c) ==
    IF c.lo % 2 = 1
    THEN U32(Xor16(POLY_HI, c.hi \div 2),
             Xor16(POLY_LO, ((c.hi % 2) * 32768) + (c.lo \div 2)))
    ELSE U32(c.hi \div 2, ((c.hi % 2) * 32768) + (c.lo \div 2))

RECURSIVE RefRounds(_, _)
RefRounds(c, k) == IF k = 0 THEN c ELSE RefRounds(RefRound(c), k - 1)

RefByte(c, b) == RefRounds(U32(c.hi, Xor16(c.lo, b)), 8)

RECURSIVE RefCrc(_, _)
RefCrc(bs, s) ==
    IF s.n >= Len(bs) THEN s.crc
    ELSE RefCrc(bs, [n |-> s.n + 1, crc |-> RefByte(s.crc, bs[s.n + 1])])

CrcRef(bs, c) == RefCrc(bs, [n |-> 0, crc |-> c])

----------------------------------------------------------------------------
(* Inputs of the direct crc32_fw calls.                                    *)

MaxCrcLen == 3

CrcBytes == {0, 1, 128, 165, 255}

RECURSIVE SeqsUpTo(_, _)
SeqsUpTo(S, k) ==
    IF k = 0 THEN {<<>>}
    ELSE LET shorter == SeqsUpTo(S, k - 1)
         IN  shorter \cup {Append(q, x) : q \in {r \in shorter : Len(r) = k - 1}, x \in S}

\* the first 64 bytes of a frame, as analyze_file passes them: header, 52
\* payload bytes counting up, counter, 4 more payload bytes
LongBuf ==
    [k \in 1..64 |->
        IF k <= 4 THEN <<165, 90, 1, 60>>[k]
        ELSE IF k \in 57..60 THEN 255
        ELSE (k * 37) % 256]

\* every buffer of up to MaxCrcLen bytes of CrcBytes, every single byte
\* (each table index is used), and one buffer of the length of a frame
CrcBufs ==
    SeqsUpTo(CrcBytes, MaxCrcLen) \cup {<<b>> : b \in 0..255} \cup {LongBuf}

\* 0, the firmware's 1, 0x80000000, 0xFFFFFFFF, 0x12345678, 0x000000FF
Seeds == {U32(0, 0), U32(0, 1), U32(32768, 0), U32(65535, 65535),
          U32(4660, 22136), U32(0, 255)}

----------------------------------------------------------------------------
(* crc32_fw called directly, one for-loop iteration per step.              *)

\* nothing printed
NoReport == [summary |-> <<>>, ratio |-> <<>>, delta |-> <<>>, gap |-> <<>>]

MainIdle ==
    /\ report = NoReport
    /\ calls = <<>>

FindIdle ==
    /\ pattern = <<>>
    /\ limit = 0
    /\ out = <<>>
    /\ fpc = "idle"

\* the dataclass Stats with its defaults
DefaultStats ==
    [odometer_total |-> 0, imu_total |-> 0, fail_total |-> 0,
     vel_rotate_zero |-> 0, vel_rotate_nonzero |-> 0,
     vel_rotate_parse_fail |-> 0, cycle_jump_count |-> 0, cycle_max_step |-> 1]

VelIdle ==
    /\ paths = <<>>
    /\ start = <<>>
    /\ end = <<>>
    /\ stats = DefaultStats
    /\ hit_count = <<>>
    /\ hit_lines = <<>>
    /\ path_no = 0
    /\ line_no = 0
    /\ verdict = <<>>
    /\ vpc = "idle"

LeadIdle ==
    /\ event_times = <<>>
    /\ fail_times = <<>>
    /\ window_sec = 0
    /\ ev = <<>>
    /\ hit = 0
    /\ fail_no = 0
    /\ ratio = <<>>
    /\ lpc = "idle"

ScanIdle ==
    /\ data = <<>>
    /\ frame_size = 0
    /\ i = 0
    /\ ok = 0
    /\ bad = 0
    /\ ts = <<>>
    /\ offsets = <<>>
    /\ visited = <<>>
    /\ pc = "idle"

InitCrc ==
    /\ CRC32_TAB = build_crc32_table
    /\ buf \in CrcBufs
    /\ seed \in Seeds
    /\ crc = seed
    /\ n = 0
    /\ prev = <<>>
    /\ cpc = "loop"
    /\ ScanIdle
    /\ MainIdle
    /\ FindIdle
    /\ VelIdle
    /\ LeadIdle

\* for b in buf: crc = ...
CrcByte ==
    /\ cpc = "loop"
    /\ n < Len(buf)
    /\ crc' = CrcUpdate(crc, buf[n + 1])
    /\ n' = n + 1
    /\ UNCHANGED <<CRC32_TAB, buf, seed, prev, cpc, scanVars, mainVars, findVars, velVars, leadVars>>

\* return crc & 0xFFFFFFFF
CrcReturn ==
    /\ cpc = "loop"
    /\ n = Len(buf)
    /\ crc' = CrcReturnValue(crc)
    /\ cpc' = "returned"
    /\ UNCHANGED <<CRC32_TAB, buf, seed, n, prev, scanVars, mainVars, findVars, velVars, leadVars>>

\* the caller calls crc32_fw again on the same bytes and seed
CrcCallAgain ==
    /\ cpc = "returned"
    /\ prev = <<>>
    /\ prev' = <<crc>>
    /\ crc' = seed
    /\ n' = 0
    /\ cpc' = "loop"
    /\ UNCHANGED <<CRC32_TAB, buf, seed, scanVars, mainVars, findVars, velVars, leadVars>>

NextCrc == CrcByte \/ CrcReturn \/ CrcCallAgain

SpecCrc == InitCrc /\ [][NextCrc]_vars

----------------------------------------------------------------------------
(* Python's bytes slicing and struct.unpack_from on a bytes object.        *)

Min(a, b) == IF a < b THEN a ELSE b
Max(a, b) == IF a > b THEN a ELSE b

\* a slice bound as Python normalises it: negative counts from the end,
\* then clamped to 0..len
SliceBound(len, k) == IF k < 0 THEN Max(len + k, 0) ELSE Min(k, len)

\* d[a:b]
PySlice(d, a, b) == SubSeq(d, SliceBound(Len(d), a) + 1, SliceBound(Len(d), b))

\* struct.unpack_from("<I", d, off) raises struct.error: a negative offset
\* counts from the end, and 4 bytes must lie at the offset
UnpackRaises(d, off) ==
    LET o == IF off < 0 THEN off + Len(d) ELSE off
    IN  o < 0 \/ Len(d) - o < 4

\* the four bytes read most significant first (">I")
UnpackBE(d, off) ==
    LET o == IF off < 0 THEN off + Len(d) ELSE off
    IN  U32((d[o + 1] * 256) + d[o + 2], (d[o + 3] * 256) + d[o + 4])

\* struct.unpack_from("<I", d, off)[0]: little-endian uint32
UnpackLE(d, off) ==
    LET o == IF off < 0 THEN off + Len(d) ELSE off
    IN  U32((d[o + 4] * 256) + d[o + 3], (d[o + 2] * 256) + d[o + 1])

----------------------------------------------------------------------------
(* analyze_file: the scan loop.                                            *)

HEADER == <<165, 90, 1, 60>>   \* A5 5A 01 3C

TS_OFFSET == 56

FW_SEED == U32(0, 1)

\* the loop guard with a strict comparison
LoopCondStrict(d, fs, k) == k + fs < Len(d)

\* the loop guard one byte too generous
LoopCondOffByOne(d, fs, k) == k + fs <= Len(d) + 1

\* a loop guard that protects the header read only
LoopCondHeaderOnly(d, fs, k) == k + 4 <= Len(d)

\* while i + frame_size <= len(data)
LoopCond(d, fs, k) == k + fs <= Len(d)

\* data[i] == 0xA5 and data[i + 1] == 0x5A and data[i + 2] == 0x01 and
\* data[i + 3] == 0x3C, the comparisons evaluated left to right from the
\* j-th on: "yes", "no", or "IndexError" when an evaluated index is past
\* the end
RECURSIVE HeaderTest(_, _, _)
HeaderTest(d, k, j) ==
    IF j = 4 THEN "yes"
    ELSE IF k + j >= Len(d) THEN "IndexError"
    ELSE IF d[k + j + 1] # HEADER[j + 1] THEN "no"
    ELSE HeaderTest(d, k, j + 1)

\* a frame slice that runs to the end of the buffer: data[i:]
FrmToEnd(d, fs, k) == PySlice(d, k, Len(d))

\* frm = data[i:i + frame_size]
Frm(d, fs, k) == PySlice(d, k, k + fs)

\* c_calc = crc32_fw(frm[:-4], 1)
CCalc(frm) == crc32_fw(PySlice(frm, 0, -4), FW_SEED)

\* the offset of c_recv: frame_size - 4
CRecvOffset(fs) == fs - 4

\* the single-byte fallback replaced by a whole-frame jump
FallbackStrideFrame(fs) == fs

\* a fallback that steps over every other byte
FallbackStrideTwo(fs) == 2

\* i += 1
FallbackStride(fs) == 1

\* the cursor after a valid frame without the fast path
ValidStrideOne(fs) == 1

\* i += frame_size
ValidStride(fs) == fs

\* the counter read 4 bytes too early
TsFieldAt52(frm) == UnpackLE(frm, TS_OFFSET - 4)

\* struct.unpack_from("<I", frm, 56)[0]
TsField(frm) == UnpackLE(frm, TS_OFFSET)

\* the classification without the checksum comparison: every header hit
\* whose frame is long enough counts as valid
KindNoCrcCheck(d, fs, k) ==
    IF ~LoopCond(d, fs, k) THEN "exit"
    ELSE LET h == HeaderTest(d, k, 0)
             frm == Frm(d, fs, k)
         IN  IF h = "IndexError" THEN "IndexError"
             ELSE IF h = "no" THEN "skip"
             ELSE IF UnpackRaises(frm, CRecvOffset(fs)) THEN "crc struct.error"
             ELSE IF UnpackRaises(frm, TS_OFFSET) THEN "ts struct.error"
             ELSE "valid"

\* What one evaluation of the loop guard and body does at cursor k:
\*   "exit"   the guard is false, the function returns
\*   "skip"   no header at k
\*   "bad"    header at k, computed and stored checksum differ
\*   "valid"  header at k, checksums equal, counter read
\*   "IndexError", "crc struct.error", "ts struct.error"  an exception
\*            leaves the function (the last one after ok += 1)
Kind(d, fs, k) ==
    IF ~LoopCond(d, fs, k) THEN "exit"
    ELSE LET h == HeaderTest(d, k, 0)
             frm == Frm(d, fs, k)
         IN  IF h = "IndexError" THEN "IndexError"
             ELSE IF h = "no" THEN "skip"
             ELSE IF UnpackRaises(frm, CRecvOffset(fs)) THEN "crc struct.error"
             ELSE IF CCalc(frm) # UnpackLE(frm, CRecvOffset(fs)) THEN "bad"
             ELSE IF UnpackRaises(frm, TS_OFFSET) THEN "ts struct.error"
             ELSE "valid"

Raises == {"IndexError", "crc struct.error", "ts struct.error"}

\* some read of the loop body at cursor k is out of range: an index of the
\* header test past the end, or less than 4 bytes at an unpack offset
SomeReadOutOfRange(d, fs, k) ==
    \/ k + 4 > Len(d)
    \/ UnpackRaises(Frm(d, fs, k), CRecvOffset(fs))
    \/ UnpackRaises(Frm(d, fs, k), TS_OFFSET)

\* locals that keep what the previous call left in them, as module-level
\* counters and lists would
ScanStartStale == [i |-> 0, ok |-> ok, bad |-> bad, ts |-> ts,
                   offsets |-> offsets, visited |-> <<>>, pc |-> "scan"]

\* the locals of analyze_file at the start of the loop
ScanStart == [i |-> 0, ok |-> 0, bad |-> 0, ts |-> <<>>, offsets |-> <<>>,
              visited |-> <<>>, pc |-> "scan"]

\* the offset put in front of the list instead of at its end
PrependOffset(offs, k) == <<k>> \o offs

\* offsets.append(i)
AppendOffset(offs, k) == Append(offs, k)

\* a checksum mismatch that is not counted
BadCountUnchanged(b) == b

\* bad += 1
BadCount(b) == b + 1

\* the locals after an evaluation of the loop guard and body of kind k; v is
\* s with the cursor noted as examined by the loop body
Apply(s, d, fs, k) ==
    LET v == [s EXCEPT !.visited = Append(@, s.i)]
    IN  CASE k = "exit" -> [s EXCEPT !.pc = "done"]
          [] k = "skip" -> [v EXCEPT !.i = @ + FallbackStride(fs)]
          [] k = "bad" -> [v EXCEPT !.bad = BadCount(@), !.i = @ + FallbackStride(fs)]
          [] k = "valid" ->
                [v EXCEPT !.ok = @ + 1,
                          !.ts = Append(@, TsField(Frm(d, fs, s.i))),
                          !.offsets = AppendOffset(@, s.i),
                          !.i = @ + ValidStride(fs)]
          [] k = "ts struct.error" -> [v EXCEPT !.ok = @ + 1, !.pc = "raised"]
          [] OTHER -> [v EXCEPT !.pc = "raised"]

\* the locals after one evaluation of the loop guard and body
Step(s, d, fs) == Apply(s, d, fs, Kind(d, fs, s.i))

\* analyze_file as a function of the bytes and the frame size: the locals
\* when the loop has ended (pc "done": ok, bad, ts, offsets are returned;
\* pc "raised": an exception left the function)
RECURSIVE RunScan(_, _, _)
RunScan(s, d, fs) == IF s.pc # "scan" THEN s ELSE RunScan(Step(s, d, fs), d, fs)

analyze_file(d, fs) == RunScan(ScanStart, d, fs)

\* return ok, bad, ts, offsets
Results(s) == <<s.ok, s.bad, s.ts, s.offsets>>

Locals == [i |-> i, ok |-> ok, bad |-> bad, ts |-> ts, offsets |-> offsets,
           visited |-> visited, pc |-> pc]

SetLocals(s) ==
    /\ i' = s.i
    /\ ok' = s.ok
    /\ bad' = s.bad
    /\ ts' = s.ts
    /\ offsets' = s.offsets
    /\ visited' = s.visited
    /\ pc' = s.pc

\* no header at i: i += 1
Advance ==
    /\ pc = "scan"
    /\ HeaderTest(data, i, 0) # "yes"
    /\ LET k == Kind(data, frame_size, i)
       IN  /\ k = "skip"
           /\ SetLocals(Apply(Locals, data, frame_size, k))
    /\ UNCHANGED <<CRC32_TAB, crcVars, data, frame_size, mainVars, findVars, velVars, leadVars>>

\* header at i, checksum mismatch: bad += 1; i += 1
BadHit ==
    /\ pc = "scan"
    /\ LET k == Kind(data, frame_size, i)
       IN  /\ k = "bad"
           /\ SetLocals(Apply(Locals, data, frame_size, k))
    /\ UNCHANGED <<CRC32_TAB, crcVars, data, frame_size, mainVars, findVars, velVars, leadVars>>

\* header at i, checksum match: ok += 1; append; i += frame_size; continue
ValidFrame ==
    /\ pc = "scan"
    /\ LET k == Kind(data, frame_size, i)
       IN  /\ k = "valid"
           /\ SetLocals(Apply(Locals, data, frame_size, k))
    /\ UNCHANGED <<CRC32_TAB, crcVars, data, frame_size, mainVars, findVars, velVars, leadVars>>

\* the loop guard fails: return ok, bad, ts, offsets
Return ==
    /\ pc = "scan"
    /\ LET k == Kind(data, frame_size, i)
       IN  /\ k = "exit"
           /\ SetLocals(Apply(Locals, data, frame_size, k))
    /\ UNCHANGED <<CRC32_TAB, crcVars, data, frame_size, mainVars, findVars, velVars, leadVars>>

\* an IndexError or struct.error leaves analyze_file
Raise ==
    /\ pc = "scan"
    /\ SomeReadOutOfRange(data, frame_size, i)
    /\ LET k == Kind(data, frame_size, i)
       IN  /\ k \in Raises
           /\ SetLocals(Apply(Locals, data, frame_size, k))
    /\ UNCHANGED <<CRC32_TAB, crcVars, data, frame_size, mainVars, findVars, velVars, leadVars>>

----------------------------------------------------------------------------
(* main (and check_file of imu_uart_tool.py, which repeats it): the        *)
(* statistics printed from what analyze_file returned.  A Python int is    *)
(* unbounded; the difference of two counters is kept as a sign and a       *)
(* 32-bit magnitude, [neg |-> BOOLEAN, mag |-> uint32].                     *)

\* b >= a on counters
Geq32(b, a) == b.hi > a.hi \/ (b.hi = a.hi /\ b.lo >= a.lo)

\* b - a for b >= a
Sub32(b, a) ==
    LET borrow == IF b.lo < a.lo THEN 1 ELSE 0
    IN  U32(b.hi - a.hi - borrow, (b.lo - a.lo) + (borrow * 65536))

\* (b - a) & 0xFFFFFFFF: the difference as a uint32 would hold it
DeltaMod32(a, b) ==
    IF Geq32(b, a) THEN [neg |-> FALSE, mag |-> Sub32(b, a)]
    ELSE [neg |-> FALSE,
          mag |-> Sub32(U32(65535, 65535), Sub32(Sub32(a, b), U32(0, 1)))]

\* b - a
Delta(a, b) ==
    IF Geq32(b, a) THEN [neg |-> FALSE, mag |-> Sub32(b, a)]
    ELSE [neg |-> TRUE, mag |-> Sub32(a, b)]

\* x < y on differences
SignedLess(x, y) ==
    IF x.neg # y.neg THEN x.neg
    ELSE IF x.neg THEN ~Geq32(y.mag, x.mag)
    ELSE ~Geq32(x.mag, y.mag)

\* zip(l, l[1:])
Zip(l) == [j \in 1..(Len(l) - 1) |-> <<l[j], l[j + 1]>>]

\* sum(1 for a, b in pairs if b >= a), from the k-th pair on
RECURSIVE Mono(_, _)
Mono(pairs, k) ==
    IF k > Len(pairs) THEN 0
    ELSE (IF Geq32(pairs[k][2], pairs[k][1]) THEN 1 ELSE 0) + Mono(pairs, k + 1)

\* min(l) and max(l) of a non-empty list of differences; m is the extreme
\* of the first k - 1 elements
RECURSIVE MinDelta(_, _, _)
MinDelta(l, k, m) ==
    IF k > Len(l) THEN m
    ELSE MinDelta(l, k + 1, IF SignedLess(l[k], m) THEN l[k] ELSE m)

RECURSIVE MaxDelta(_, _, _)
MaxDelta(l, k, m) ==
    IF k > Len(l) THEN m
    ELSE MaxDelta(l, k + 1, IF SignedLess(m, l[k]) THEN l[k] ELSE m)

\* min(l) and max(l) of a non-empty list of ints
RECURSIVE MinInt(_, _, _)
MinInt(l, k, m) ==
    IF k > Len(l) THEN m ELSE MinInt(l, k + 1, IF l[k] < m THEN l[k] ELSE m)

RECURSIVE MaxInt(_, _, _)
MaxInt(l, k, m) ==
    IF k > Len(l) THEN m ELSE MaxInt(l, k + 1, IF l[k] > m THEN l[k] ELSE m)

\* the statistics printed whatever the number of valid frames
StatsGuardAlways(nOk) == TRUE

\* if ok > 1
StatsGuard(nOk) == nOk > 1

\* what main prints for the values analyze_file returned; a line that is
\* not printed is the empty sequence
MainReport(nOk, nBad, tsList, offList) ==
    LET pairs == Zip(tsList)
        deltas == [j \in 1..Len(pairs) |-> Delta(pairs[j][1], pairs[j][2])]
        opairs == Zip(offList)
        frame_gaps == [j \in 1..Len(opairs) |-> opairs[j][2] - opairs[j][1]]
    IN  [summary |-> <<[ok |-> nOk, bad |-> nBad]>>,
         ratio |->
            IF StatsGuard(nOk)
            THEN <<[num |-> Mono(pairs, 1), den |-> Len(tsList) - 1]>>
            ELSE <<>>,
         delta |->
            IF StatsGuard(nOk) /\ deltas # <<>>
            THEN <<[min |-> MinDelta(deltas, 2, deltas[1]),
                    max |-> MaxDelta(deltas, 2, deltas[1])]>>
            ELSE <<>>,
         gap |->
            IF StatsGuard(nOk) /\ frame_gaps # <<>>
            THEN <<[min |-> MinInt(frame_gaps, 2, frame_gaps[1]),
                    max |-> MaxInt(frame_gaps, 2, frame_gaps[1])]>>
            ELSE <<>>]

\* main after analyze_file returned: print the statistics
Report ==
    /\ pc = "done"
    /\ report = NoReport
    /\ report' = MainReport(ok, bad, ts, offsets)
    /\ UNCHANGED <<CRC32_TAB, crcVars, scanVars, calls, findVars, velVars, leadVars>>

----------------------------------------------------------------------------
(* The captures analyze_file is run on.  Frames are built as the firmware  *)
(* builds them: header, payload with the counter at byte 56, and the       *)
(* bit-serial checksum of all bytes before it appended little-endian.      *)

MaxFrames == 2

DEFAULT_FRAME_SIZE == 68

MIN_FRAME_SIZE == 8

FrameSizes == {MIN_FRAME_SIZE, DEFAULT_FRAME_SIZE}

\* the header the firmware sends: A5 5A (sync), 01 (type), 3C (length 60)
FwHeader == <<165, 90, 1, 60>>

PackLE(w) == <<w.lo % 256, w.lo \div 256, w.hi % 256, w.hi \div 256>>

Fill(k, b) == [j \in 1..k |-> b]

\* payloads: fill byte, counter, and where a copy of the header pattern
\* lies inside the payload (0: nowhere)
Payloads ==
    { [fill |-> 0,   cnt |-> U32(0, 1),         hdrAt |-> 0],
      [fill |-> 17,  cnt |-> U32(65535, 65535), hdrAt |-> 0],
      [fill |-> 255, cnt |-> U32(0, 0),         hdrAt |-> 8] }

FrameBody(fs, p) ==
    [k \in 1..(fs - 4) |->
        LET z == k - 1
        IN  IF z < 4 THEN FwHeader[k]
            ELSE IF z \in 56..59 THEN PackLE(p.cnt)[z - 55]
            ELSE IF p.hdrAt > 0 /\ z \in p.hdrAt..(p.hdrAt + 3)
                 THEN FwHeader[z - p.hdrAt + 1]
            ELSE p.fill]

WithChecksum(body) == body \o PackLE(CrcRef(body, U32(0, 1)))

FwFrame(fs, p) == WithChecksum(FrameBody(fs, p))

Bit(k) == IF k = 0 THEN 1 ELSE IF k = 1 THEN 2 ELSE IF k = 2 THEN 4
          ELSE IF k = 3 THEN 8 ELSE IF k = 4 THEN 16 ELSE IF k = 5 THEN 32
          ELSE IF k = 6 THEN 64 ELSE 128

\* d with bit number b flipped (bit 0 is the low bit of the first byte)
FlipBit(d, b) == [d EXCEPT ![(b \div 8) + 1] = Xor8(@, Bit(b % 8))]

ValidFrames == [fs \in FrameSizes |-> {FwFrame(fs, p) : p \in Payloads}]

\* a frame whose stored checksum is wrong
CorruptFrames ==
    [fs \in FrameSizes |->
        {FlipBit(FwFrame(fs, p), 8 * (fs - 1)) : p \in {q \in Payloads : q.fill = 0}}]

RECURSIVE Streams(_, _)
Streams(pool, k) ==
    IF k = 0 THEN {<<>>}
    ELSE LET shorter == Streams(pool, k - 1)
         IN  shorter \cup {q \o f : q \in shorter, f \in pool}

\* what precedes the frames: nothing, garbage that is a partial header,
\* garbage with a false header 5 bytes before the first frame
Leads == {<<>>, <<165, 90, 1>>, <<9>> \o FwHeader \o <<0>>}

\* what follows the frames: nothing, garbage, a header with less than a
\* frame after it
Tails == [fs \in FrameSizes |-> {<<>>, <<7>>, FwHeader \o Fill(fs - 5, 0)}]

StreamBuffers ==
    [fs \in FrameSizes |->
        {l \o q \o t : l \in Leads, t \in Tails[fs],
                       q \in Streams(ValidFrames[fs] \cup CorruptFrames[fs], MaxFrames)}]

\* one valid frame with one bit of its header (bytes 0..3) flipped
TamperedHeader ==
    [fs \in FrameSizes |-> {FlipBit(f, b) : f \in ValidFrames[fs], b \in 0..31}]

\* one valid frame with one bit of its bytes 4..frame_size-5 flipped
TamperedPayload ==
    [fs \in FrameSizes |->
        {FlipBit(f, b) : f \in ValidFrames[fs], b \in 32..((8 * (fs - 4)) - 1)}]

\* one valid frame with one bit of its first frame_size - 4 bytes flipped
TamperedBuffers == [fs \in FrameSizes |-> TamperedHeader[fs] \cup TamperedPayload[fs]]

\* a valid frame whose payload holds, from byte 8 on, the start of a second
\* valid frame that ends 8 bytes after the first
NestedAt == 8

Nested(fs, p) ==
    LET outer == FwFrame(fs, [p EXCEPT !.hdrAt = NestedAt])
        upto  == outer \o Fill(NestedAt - 4, p.fill)
        inner == SubSeq(upto, NestedAt + 1, Len(upto))
    IN  upto \o PackLE(CrcRef(inner, U32(0, 1)))

\* the nested pair, alone and with the outer frame's byte 5 damaged
NestedBuffers ==
    [fs \in FrameSizes |->
        IF fs < NestedAt + 8 THEN {}
        ELSE UNION {{Nested(fs, p), FlipBit(Nested(fs, p), 40),
                     <<0>> \o Nested(fs, p)} : p \in Payloads}]

\* captures shorter than one frame: the proper prefixes of a valid frame
ShortBuffers ==
    [fs \in FrameSizes |->
        {SubSeq(f, 1, k) : f \in ValidFrames[fs], k \in 0..(fs - 1)}]

\* three frames in a row, their counters in each order: 1, 0xFFFFFFFF, 0
\* wraps around between the second and the third
CounterRuns ==
    [fs \in FrameSizes |->
        {FwFrame(fs, t[1]) \o FwFrame(fs, t[2]) \o FwFrame(fs, t[3]) :
            t \in {u \in Payloads \X Payloads \X Payloads :
                      u[1] # u[2] /\ u[1] # u[3] /\ u[2] # u[3]}}]

\* what separates two frames of a capture that lost bytes: a stray byte,
\* a stray header, a frame whose checksum is wrong
Gaps == [fs \in FrameSizes |-> {<<7>>, FwHeader \o <<0>>} \cup CorruptFrames[fs]]

\* two frames with a gap between them, alone and after a frame that the
\* first of them follows immediately
GapRuns ==
    [fs \in FrameSizes |->
        LET f == FwFrame(fs, CHOOSE p \in Payloads : p.fill = 0)
            h == FwFrame(fs, CHOOSE p \in Payloads : p.fill = 17)
        IN  UNION {{f \o g \o h, h \o f \o g \o h} : g \in Gaps[fs]}]

Buffers ==
    [fs \in FrameSizes |->
        StreamBuffers[fs] \cup TamperedBuffers[fs] \cup NestedBuffers[fs]
            \cup ShortBuffers[fs] \cup CounterRuns[fs] \cup GapRuns[fs]]

\* frame sizes too small for a header and a checksum (--frame-size is any
\* int: main passes it on unchecked)
SmallFrameSizes == 0..7

\* the checksum of the header's first three bytes, little-endian: the bytes
\* that would complete a 7-byte frame if its fourth byte were not the
\* header's
SmallChecksum == PackLE(CrcRef(SubSeq(FwHeader, 1, 3), U32(0, 1)))

\* captures for the small frame sizes: a prefix of the header, after
\* nothing or one byte of garbage, followed by nothing, garbage, checksum
\* bytes, a second header, or a header and four more bytes
SmallBuffers ==
    {l \o SubSeq(FwHeader, 1, k) \o t :
        l \in {<<>>, <<0>>}, k \in 0..4,
        t \in {<<>>, <<0>>, SmallChecksum, FwHeader, FwHeader \o Fill(4, 0)}}

Captures(fs) == IF fs \in FrameSizes THEN Buffers[fs] ELSE SmallBuffers

----------------------------------------------------------------------------
(* analyze_file run on one capture.                                        *)

CrcIdle ==
    /\ buf = <<>>
    /\ seed = FW_SEED
    /\ crc = FW_SEED
    /\ n = 0
    /\ prev = <<>>
    /\ cpc = "idle"

Init ==
    /\ CRC32_TAB = build_crc32_table
    /\ CrcIdle
    /\ MainIdle
    /\ FindIdle
    /\ VelIdle
    /\ LeadIdle
    /\ frame_size \in FrameSizes \cup SmallFrameSizes
    /\ data \in Captures(frame_size)
    /\ i = 0
    /\ ok = 0
    /\ bad = 0
    /\ ts = <<>>
    /\ offsets = <<>>
    /\ visited = <<>>
    /\ pc = "scan"

Next == Advance \/ BadHit \/ ValidFrame \/ Return \/ Raise

Spec == Init /\ [][Next]_vars

----------------------------------------------------------------------------
(* main: analyze_file run on one capture, then the statistics printed.     *)

\* captures with zero to MaxFrames frames after each lead, the runs of
\* three counters and the runs with gaps
MainCaptures ==
    [fs \in FrameSizes |->
        {l \o q : l \in Leads,
                  q \in Streams(ValidFrames[fs] \cup CorruptFrames[fs], MaxFrames)}
            \cup CounterRuns[fs] \cup GapRuns[fs]]

InitMain ==
    /\ CRC32_TAB = build_crc32_table
    /\ CrcIdle
    /\ MainIdle
    /\ FindIdle
    /\ VelIdle
    /\ LeadIdle
    /\ frame_size \in FrameSizes
    /\ data \in MainCaptures[frame_size]
    /\ i = 0
    /\ ok = 0
    /\ bad = 0
    /\ ts = <<>>
    /\ offsets = <<>>
    /\ visited = <<>>
    /\ pc = "scan"

NextMain == Advance \/ BadHit \/ ValidFrame \/ Return \/ Raise \/ Report

SpecMain == InitMain /\ [][NextMain]_vars

----------------------------------------------------------------------------
(* analyze_file called several times in one process, on the same or on     *)
(* other captures.                                                         *)

MaxCalls == 3

\* the arguments of the calls
SessionInputs ==
    LET f == FwFrame(DEFAULT_FRAME_SIZE, CHOOSE p \in Payloads : p.fill = 0)
        h == FwFrame(DEFAULT_FRAME_SIZE, CHOOSE p \in Payloads : p.fill = 17)
        g == FwFrame(MIN_FRAME_SIZE, CHOOSE p \in Payloads : p.fill = 0)
    IN  { [fs |-> DEFAULT_FRAME_SIZE, data |-> <<9>> \o FwHeader \o <<0>> \o f],
          [fs |-> DEFAULT_FRAME_SIZE, data |-> h \o <<7>>],
          [fs |-> MIN_FRAME_SIZE, data |-> g],
          [fs |-> MIN_FRAME_SIZE, data |-> <<9>> \o FwHeader \o <<0>> \o f],
          [fs |-> MIN_FRAME_SIZE, data |-> FwHeader \o Fill(MIN_FRAME_SIZE - 3, 0)] }

\* how a call ended: the tuple returned, or the exception
Outcome(s) == [pc |-> s.pc, res |-> IF s.pc = "done" THEN Results(s) ELSE <<>>]

InitSession ==
    /\ CRC32_TAB = build_crc32_table
    /\ CrcIdle
    /\ MainIdle
    /\ FindIdle
    /\ VelIdle
    /\ LeadIdle
    /\ \E inp \in SessionInputs : frame_size = inp.fs /\ data = inp.data
    /\ i = 0
    /\ ok = 0
    /\ bad = 0
    /\ ts = <<>>
    /\ offsets = <<>>
    /\ visited = <<>>
    /\ pc = "scan"

\* the call has ended; analyze_file is called again: data = path.read_bytes(),
\* ok = 0, bad = 0, ts = [], offsets = [], i = 0
NextCall ==
    /\ pc \in {"done", "raised"}
    /\ Len(calls) < MaxCalls - 1
    /\ calls' = Append(calls, [data |-> data, frame_size |-> frame_size,
                               outcome |-> Outcome(Locals)])
    /\ \E inp \in SessionInputs : frame_size' = inp.fs /\ data' = inp.data
    /\ SetLocals(ScanStart)
    /\ UNCHANGED <<CRC32_TAB, crcVars, report, findVars, velVars, leadVars>>

NextSession == Advance \/ BadHit \/ ValidFrame \/ Return \/ Raise \/ NextCall

SpecSession == InitSession /\ [][NextSession]_vars

----------------------------------------------------------------------------
(* find_offsets of imu_uart_tool.py, one iteration of its while loop per   *)
(* step.  Its locals data and i are the variables data and i.              *)

\* data.find(pattern, k): the least index >= k at which pattern lies in
\* data, or -1 (an empty pattern lies at every index up to len(data))
RECURSIVE BytesFind(_, _, _)
BytesFind(d, p, k) ==
    IF k + Len(p) > Len(d) THEN -1
    ELSE IF SubSeq(d, k + 1, k + Len(p)) = p THEN k
    ELSE BytesFind(d, p, k + 1)

\* the step past a match that allows no overlapping matches
FindStridePattern == Max(Len(pattern), 1)

\* i += 1
FindStride == 1

\* if limit > 0 and len(out) >= limit
LimitReached(lim, found) == lim > 0 /\ Len(found) >= lim

MaxFindLen == 5

FindBytes == {165, 90}

FindPatterns == {<<>>, <<165>>, <<165, 165>>, <<165, 90>>, <<165, 90, 165>>}

FindLimits == {-1, 0, 1, 2, 3}

InitFind ==
    /\ CRC32_TAB = build_crc32_table
    /\ CrcIdle
    /\ MainIdle
    /\ VelIdle
    /\ LeadIdle
    /\ data \in SeqsUpTo(FindBytes, MaxFindLen)
    /\ frame_size = 0
    /\ ok = 0
    /\ bad = 0
    /\ ts = <<>>
    /\ offsets = <<>>
    /\ visited = <<>>
    /\ pc = "idle"
    /\ pattern \in FindPatterns
    /\ limit \in FindLimits
    /\ out = <<>>
    /\ i = 0
    /\ fpc = "find"

\* i = data.find(pattern, i); if i < 0: break
FindMiss ==
    /\ fpc = "find"
    /\ BytesFind(data, pattern, i) < 0
    /\ i' = BytesFind(data, pattern, i)
    /\ fpc' = "returned"
    /\ UNCHANGED <<CRC32_TAB, crcVars, data, frame_size, ok, bad, ts, offsets,
                   visited, pc, mainVars, velVars, leadVars, pattern, limit, out>>

\* out.append(i); i += 1; the limit is not reached: next iteration
FindHit ==
    /\ fpc = "find"
    /\ BytesFind(data, pattern, i) >= 0
    /\ out' = Append(out, BytesFind(data, pattern, i))
    /\ i' = BytesFind(data, pattern, i) + FindStride
    /\ ~LimitReached(limit, out')
    /\ UNCHANGED <<CRC32_TAB, crcVars, data, frame_size, ok, bad, ts, offsets,
                   visited, pc, mainVars, velVars, leadVars, pattern, limit, fpc>>

\* out.append(i); i += 1; the limit is reached: break
FindHitLimit ==
    /\ fpc = "find"
    /\ BytesFind(data, pattern, i) >= 0
    /\ out' = Append(out, BytesFind(data, pattern, i))
    /\ i' = BytesFind(data, pattern, i) + FindStride
    /\ LimitReached(limit, out')
    /\ fpc' = "returned"
    /\ UNCHANGED <<CRC32_TAB, crcVars, data, frame_size, ok, bad, ts, offsets,
                   visited, pc, mainVars, velVars, leadVars, pattern, limit>>

NextFind == FindMiss \/ FindHit \/ FindHitLimit

\* the loop is sequential code: while an iteration can run, one runs
SpecFind == InitFind /\ [][NextFind]_vars /\ WF_vars(NextFind)

----------------------------------------------------------------------------
(* Claims about the checksum engine.                                       *)

\* C1: crc32_fw(buf, seed) equals the bit-serial reflected CRC32 of buf
\* started from seed (xor the byte into the low 8 bits, 8 rounds of shift
\* right with xor of 0xEDB88320 when the bit shifted out was 1), with no
\* final xor, and the result is a 32-bit value.
CrcMatchesReference ==
    /\ crc32_fw(buf, seed) = CrcRef(buf, seed)
    /\ cpc = "loop" => crc = CrcRef(SubSeq(buf, 1, n), seed)
    /\ cpc = "returned" => crc = CrcRef(buf, seed) /\ IsU32(crc)

CrcReturnedNonEmpty ==
    /\ cpc = "returned"
    /\ Len(buf) = MaxCrcLen
    /\ seed = U32(65535, 65535)
    /\ crc # seed

\* C2: on an empty buffer crc32_fw returns the seed unchanged, whatever the
\* seed is (so crc32_fw(b"", 1) = 1), and a second call on the same bytes
\* and seed returns what the first call returned.
CrcEmptyAndRepeatable ==
    cpc = "returned" =>
        /\ buf = <<>> => crc = seed
        /\ prev # <<>> => crc = prev[1]

CrcEmptyCalledTwice ==
    /\ cpc = "returned"
    /\ buf = <<>>
    /\ seed = U32(0, 1)
    /\ prev = <<U32(0, 1)>>
    /\ crc = U32(0, 1)

----------------------------------------------------------------------------
(* Claims about the frame scanner.  A frame is judged here by the wire     *)
(* format alone: the firmware's header and bit-serial checksum.            *)

\* the little-endian uint32 at bytes [p, p+4) of d (p 0-based)
WordAt(d, p) == U32((d[p + 4] * 256) + d[p + 3], (d[p + 2] * 256) + d[p + 1])

HeaderAt(d, p) ==
    /\ p >= 0
    /\ p + 4 <= Len(d)
    /\ \A j \in 1..4 : d[p + j] = FwHeader[j]

\* bytes [p, p+fs) of d are a frame: header, and stored checksum equal to
\* the checksum of the bytes before it
FrameValidAt(d, fs, p) ==
    /\ fs >= 8
    /\ p + fs <= Len(d)
    /\ HeaderAt(d, p)
    /\ CrcRef(SubSeq(d, p + 1, p + fs - 4), U32(0, 1)) = WordAt(d, p + fs - 4)

Returned == pc = "done"

\* C3: an offset is recorded as a valid frame only if the header lies at
\* it, the frame fits the buffer and the checksum of its first
\* frame_size - 4 bytes (seed 1) equals the little-endian value stored in
\* its last 4 bytes; the counter recorded with it is the little-endian
\* uint32 at bytes [offset + 56, offset + 60) of the buffer.
RecordedFramesAreValid ==
    Returned =>
        /\ Len(ts) = Len(offsets)
        /\ \A j \in 1..Len(offsets) :
              /\ FrameValidAt(data, frame_size, offsets[j])
              /\ offsets[j] + 60 <= Len(data)
              /\ ts[j] = WordAt(data, offsets[j] + 56)

TwoFramesRecordedAfterBadHit ==
    /\ Returned
    /\ Len(offsets) = 2
    /\ offsets[1] > 0
    /\ bad > 0
    /\ ts[1] # ts[2]

\* C4: every offset at which a valid frame lies is in the returned offset
\* list or strictly inside the span of a frame of the returned list.
NoValidFrameMissed ==
    Returned =>
        \A p \in 0..(Len(data) - frame_size) :
            FrameValidAt(data, frame_size, p) =>
                \/ \E j \in 1..Len(offsets) : offsets[j] = p
                \/ \E j \in 1..Len(offsets) :
                      offsets[j] < p /\ p < offsets[j] + frame_size

FrameFoundAfterResync ==
    /\ Returned
    /\ bad = 1
    /\ offsets = <<NestedAt>>
    /\ FrameValidAt(data, frame_size, NestedAt)
    /\ ~FrameValidAt(data, frame_size, 0)

\* C5 as stated: a valid 68-byte frame with any one bit of bytes [0, 64)
\* flipped scans as a bad hit: valid-frame count 0, bad-hit count 1.
TamperedFrameIsBadHit ==
    (Returned /\ frame_size = DEFAULT_FRAME_SIZE
        /\ data \in TamperedBuffers[frame_size]) =>
        ok = 0 /\ bad = 1

\* C5 amended: a valid 68-byte frame with one bit of bytes [0, 64) flipped
\* never scans as a valid frame; it is one bad hit when the bit lies in
\* bytes [4, 64), and neither a valid frame nor a bad hit (both counts 0)
\* when the bit lies in the header bytes [0, 4).
TamperedFrameNeverValid ==
    (Returned /\ frame_size = DEFAULT_FRAME_SIZE) =>
        /\ data \in TamperedPayload[frame_size] =>
              ok = 0 /\ bad = 1 /\ offsets = <<>>
        /\ data \in TamperedHeader[frame_size] =>
              ok = 0 /\ bad = 0 /\ offsets = <<>>

TamperedPayloadScanned ==
    /\ Returned
    /\ frame_size = DEFAULT_FRAME_SIZE
    /\ data \in TamperedPayload[frame_size]
    /\ bad = 1

\* a false header at h, a valid frame 5 bytes after it, and no header
\* pattern anywhere else outside that frame
ResyncShape(d, fs, h) ==
    /\ HeaderAt(d, h)
    /\ FrameValidAt(d, fs, h + 5)
    /\ ~FrameValidAt(d, fs, h)
    /\ \A p \in 0..(Len(d) - 4) :
          HeaderAt(d, p) => p = h \/ (h + 5 <= p /\ p < h + 5 + fs)

\* C6: a header that starts no valid frame, embedded in garbage, with a
\* valid frame starting 5 bytes after it: the scan reports 1 valid frame,
\* 1 bad hit, and the offset of the valid frame.
ResyncAfterFalseHeader ==
    (pc \in {"done", "raised"} /\ frame_size = DEFAULT_FRAME_SIZE) =>
        \A h \in 0..(Len(data) - frame_size - 5) :
            ResyncShape(data, frame_size, h) =>
                Returned /\ ok = 1 /\ bad = 1 /\ offsets = <<h + 5>>

ResyncAfterGarbage ==
    /\ Returned
    /\ frame_size = DEFAULT_FRAME_SIZE
    /\ ResyncShape(data, frame_size, 1)
    /\ offsets = <<6>>

\* d is k >= 1 valid frames of fs bytes, one after the other
IsDense(d, fs) ==
    /\ fs >= 8
    /\ Len(d) >= fs
    /\ Len(d) % fs = 0
    /\ \A j \in 0..((Len(d) \div fs) - 1) : FrameValidAt(d, fs, j * fs)

\* C7: the concatenation of k >= 1 valid frames of frame_size bytes scans
\* as k valid frames at offsets 0, frame_size, ..., (k-1) * frame_size with
\* no bad hit.
DenseStreamScan ==
    (pc \in {"done", "raised"} /\ IsDense(data, frame_size)) =>
        /\ Returned
        /\ ok = Len(data) \div frame_size
        /\ bad = 0
        /\ offsets = [j \in 1..(Len(data) \div frame_size) |-> (j - 1) * frame_size]

\* the scan of the first m bytes returns, and its last valid frame ends
\* at byte m
LastFrameEndsAt(d, fs, m) ==
    /\ m >= fs
    /\ HeaderAt(d, m - fs)
    /\ LET s == analyze_file(SubSeq(d, 1, m), fs)
       IN  /\ s.pc = "done"
           /\ s.offsets # <<>>
           /\ s.offsets[Len(s.offsets)] + fs = m

\* C8: when the last valid frame of B ends at the end of B, B followed by
\* a tail shorter than a frame scans to the same counts and lists as B.
TruncatedTailIgnored ==
    pc \in {"done", "raised"} =>
        \A m \in (Len(data) - frame_size + 1)..Len(data) :
            LastFrameEndsAt(data, frame_size, m) =>
                /\ Returned
                /\ Results(Locals) = Results(analyze_file(SubSeq(data, 1, m), frame_size))

TailWithHeaderIgnored ==
    /\ Returned
    /\ frame_size = DEFAULT_FRAME_SIZE
    /\ LET m == Len(data) - (frame_size - 1)
       IN  /\ LastFrameEndsAt(data, frame_size, m)
           /\ HeaderAt(data, m)
    /\ ok = 2

\* C9: a buffer shorter than one frame is scanned to zero valid frames,
\* zero bad hits and empty lists, and no exception is raised.
ShortBufferEmptyResult ==
    Len(data) < frame_size =>
        /\ pc \in {"scan", "done"}
        /\ pc = "scan" => Kind(data, frame_size, i) = "exit"
        /\ ok = 0
        /\ bad = 0
        /\ ts = <<>>
        /\ offsets = <<>>

ShortBufferWithHeaderReturned ==
    /\ Returned
    /\ frame_size = DEFAULT_FRAME_SIZE
    /\ Len(data) = frame_size - 1
    /\ HeaderAt(data, 0)

\* C10: for every buffer and every frame size >= 8 analyze_file raises no
\* exception.
NoExceptionRaised == frame_size >= 8 => pc # "raised"

\* C11: with a frame size below 8 the scan of any buffer ends without an
\* exception from the loop and with zero valid frames and empty counter and
\* offset lists (main and analyze_file have no up-front rejection of the
\* frame size, so the degenerate result is the only outcome left).
SmallFrameSizeDegenerate ==
    frame_size < 8 =>
        /\ pc # "raised"
        /\ ok = 0
        /\ ts = <<>>
        /\ offsets = <<>>

\* C12: the offset list is strictly increasing, each offset was appended
\* when the cursor stood on it (order of discovery), and the j-th counter
\* is the little-endian uint32 at bytes [56, 60) of the frame at the j-th
\* offset.
OffsetsOrderedCountersAligned ==
    /\ Len(ts) = Len(offsets)
    /\ \A j \in 1..(Len(offsets) - 1) : offsets[j] < offsets[j + 1]
    /\ \A j \in 1..Len(offsets) :
          /\ offsets[j] + frame_size <= i
          /\ \E k \in 1..Len(visited) : visited[k] = offsets[j]
          /\ ts[j] = WordAt(data, offsets[j] + TS_OFFSET)
    /\ \A j \in 1..(Len(offsets) - 1) :
          \E b \in 1..Len(visited) :
              /\ visited[b] = offsets[j + 1]
              /\ \E a \in 1..(b - 1) : visited[a] = offsets[j]

TwoCountersInDiscoveryOrder ==
    /\ Returned
    /\ offsets = <<6, 6 + DEFAULT_FRAME_SIZE>>
    /\ ts = <<U32(0, 1), U32(65535, 65535)>>

\* the header lies at p, the frame fits, and the checksum of its first
\* fs - 4 bytes differs from the value stored in its last 4 bytes
BadAt(d, fs, p) ==
    /\ fs >= 4
    /\ p + fs <= Len(d)
    /\ HeaderAt(d, p)
    /\ CrcRef(SubSeq(d, p + 1, p + fs - 4), U32(0, 1)) # WordAt(d, p + fs - 4)

\* the examined positions that are bad hits
BadPositions ==
    {k \in 1..Len(visited) : BadAt(data, frame_size, visited[k])}

\* a step that counts a bad hit leaves the scan running, the lists as they
\* are, and moves the cursor forward
BadStepContinues ==
    bad' # bad =>
        /\ bad' = bad + 1
        /\ pc' = "scan"
        /\ ts' = ts
        /\ offsets' = offsets
        /\ i' > i

\* C13: the bad-hit count returned is the number of examined cursor
\* positions (each examined once) at which the header matches, the frame
\* fits and the computed checksum differs from the stored one; counting a
\* bad hit never ends the scan and never adds to the counter or offset
\* lists.
BadHitsCounted ==
    /\ [](Returned =>
            /\ bad = Cardinality(BadPositions)
            /\ \A j \in 1..(Len(visited) - 1) : visited[j] < visited[j + 1])
    /\ [][BadStepContinues]_vars

ThreeBadHitsCounted ==
    /\ Returned
    /\ frame_size = DEFAULT_FRAME_SIZE
    /\ bad = 3
    /\ ok = 0

----------------------------------------------------------------------------
(* Claims about the statistics main prints.                                *)

\* a < b on counters
Less32(a, b) == a.hi < b.hi \/ (a.hi = b.hi /\ a.lo < b.lo)

Printed == report # NoReport

\* C14: with n >= 2 valid frames the printed ratio has as numerator the
\* number of consecutive counter pairs with next >= previous and as
\* denominator n - 1, so 0 <= numerator <= n - 1; with n <= 1 valid frames
\* no ratio, no counter delta and no offset gap is printed, and a minimum
\* or maximum is only ever taken over at least one pair.
MonotonicRatio ==
    Printed =>
        /\ report.summary = <<[ok |-> ok, bad |-> bad]>>
        /\ ok >= 2 =>
              /\ report.ratio =
                    <<[num |-> Cardinality({j \in 1..(Len(ts) - 1) :
                                               ~Less32(ts[j + 1], ts[j])}),
                       den |-> ok - 1]>>
              /\ report.ratio[1].num \in 0..(ok - 1)
              /\ report.ratio[1].den >= 1
        /\ ok <= 1 =>
              report.ratio = <<>> /\ report.delta = <<>> /\ report.gap = <<>>
        /\ report.delta # <<>> => Len(ts) >= 2
        /\ report.gap # <<>> => Len(offsets) >= 2

RatioOneOfTwo ==
    /\ Printed
    /\ ok = 3
    /\ report.ratio = <<[num |-> 1, den |-> 2]>>

\* a 33-bit sum: a + m with the carry out of bit 31
AddWide(a, m) ==
    LET lo == a.lo + m.lo
        hi == a.hi + m.hi + (lo \div 65536)
    IN  [c |-> hi \div 65536, hi |-> hi % 65536, lo |-> lo % 65536]

Wide(a) == [c |-> 0, hi |-> a.hi, lo |-> a.lo]

LeqWide(x, y) ==
    \/ x.c < y.c
    \/ x.c = y.c /\ x.hi < y.hi
    \/ x.c = y.c /\ x.hi = y.hi /\ x.lo <= y.lo

\* a + d <= b and a + d >= b, for a difference d and counters a, b
SumLeq(a, d, b) ==
    IF d.neg THEN LeqWide(Wide(a), AddWide(b, d.mag))
    ELSE LeqWide(AddWide(a, d.mag), Wide(b))

SumGeq(a, d, b) ==
    IF d.neg THEN LeqWide(AddWide(b, d.mag), Wide(a))
    ELSE LeqWide(Wide(b), AddWide(a, d.mag))

\* d is a sign and a uint32 magnitude, zero being non-negative
InDeltaRange(d) == IsU32(d.mag) /\ (d.neg => d.mag # U32(0, 0))

\* C15: the printed minimum and maximum counter deltas are next - previous
\* of some consecutive pair as signed integers in -(2^32-1)..(2^32-1), not
\* reduced modulo 2^32: the minimum is at most and the maximum at least
\* every pair's difference, a pair with next < previous makes the minimum
\* negative, and minimum <= maximum.
SignedCounterDeltas ==
    (Printed /\ report.delta # <<>>) =>
        LET lo == report.delta[1].min
            hi == report.delta[1].max
            P == 1..(Len(ts) - 1)
        IN  /\ InDeltaRange(lo) /\ InDeltaRange(hi)
            /\ \E j \in P : SumLeq(ts[j], lo, ts[j + 1]) /\ SumGeq(ts[j], lo, ts[j + 1])
            /\ \E j \in P : SumLeq(ts[j], hi, ts[j + 1]) /\ SumGeq(ts[j], hi, ts[j + 1])
            /\ \A j \in P : SumLeq(ts[j], lo, ts[j + 1]) /\ SumGeq(ts[j], hi, ts[j + 1])
            /\ (\E j \in P : Less32(ts[j + 1], ts[j])) => lo.neg
            /\ (lo.neg /\ ~hi.neg) \/ (lo.neg = hi.neg /\
                    IF lo.neg THEN ~Less32(lo.mag, hi.mag) ELSE ~Less32(hi.mag, lo.mag))

WraparoundDeltaNegative ==
    /\ Printed
    /\ ts = <<U32(0, 1), U32(65535, 65535), U32(0, 0)>>
    /\ report.delta = <<[min |-> [neg |-> TRUE, mag |-> U32(65535, 65535)],
                         max |-> [neg |-> FALSE, mag |-> U32(65535, 65534)]]>>

----------------------------------------------------------------------------
(* Claims about the cursor.                                                *)

\* the index in visited of the examined position p
VisitIndex(p) == CHOOSE k \in 1..Len(visited) : visited[k] = p

\* C16: the gap between consecutive recorded offsets is at least
\* frame_size; it is frame_size exactly when the second frame is the very
\* next position the loop examined after the first, and larger exactly
\* when single-byte advances lie between them, one for each byte from the
\* end of the first frame to the second; the printed gap extremes are the
\* least and the greatest of these gaps.
OffsetGaps ==
    /\ \A j \in 1..(Len(offsets) - 1) :
          LET gap == offsets[j + 1] - offsets[j]
              a == VisitIndex(offsets[j])
              b == VisitIndex(offsets[j + 1])
          IN  /\ gap >= frame_size
              /\ gap = frame_size <=> b = a + 1
              /\ gap > frame_size <=> b > a + 1
              /\ b - (a + 1) = gap - frame_size
              /\ visited[a + 1] = offsets[j] + frame_size
              /\ \A k \in (a + 1)..(b - 1) : visited[k + 1] = visited[k] + 1
    /\ (Printed /\ report.gap # <<>>) =>
          LET G == {offsets[j + 1] - offsets[j] : j \in 1..(Len(offsets) - 1)}
          IN  /\ report.gap[1].min \in G
              /\ report.gap[1].max \in G
              /\ \A g \in G : report.gap[1].min <= g /\ g <= report.gap[1].max
              /\ report.gap[1].min >= frame_size

GapAfterBackToBackFrames ==
    /\ Printed
    /\ Len(offsets) = 3
    /\ report.gap = <<[min |-> DEFAULT_FRAME_SIZE, max |-> DEFAULT_FRAME_SIZE + 1]>>

\* what a run of the loop body at cursor i that hands the cursor on to the
\* next evaluation of the loop guard does to it: frame_size further when a
\* valid frame lies at i, one byte further otherwise; and nothing else
\* moves the cursor
CursorStrideStep ==
    /\ (pc = "scan" /\ pc' = "scan") =>
          /\ LoopCond(data, frame_size, i)
          /\ i' = i + (IF FrameValidAt(data, frame_size, i) THEN frame_size ELSE 1)
    /\ i' # i => pc = "scan" /\ pc' = "scan"

----------------------------------------------------------------------------
(* Claims about repeated calls and the table.                              *)

\* the calls that have ended, the running one included once it has
EndedCalls ==
    IF pc \in {"done", "raised"}
    THEN Append(calls, [data |-> data, frame_size |-> frame_size,
                        outcome |-> Outcome(Locals)])
    ELSE calls

\* C17: any two calls of analyze_file with the same buffer and the same
\* frame size end the same way, with the same counts and lists, whatever
\* was scanned before or in between; every call starts from zero counts
\* and empty lists.
ScansRepeatable ==
    /\ \A a, b \in 1..Len(EndedCalls) :
          (/\ EndedCalls[a].data = EndedCalls[b].data
           /\ EndedCalls[a].frame_size = EndedCalls[b].frame_size)
              => EndedCalls[a].outcome = EndedCalls[b].outcome
    /\ (pc = "scan" /\ visited = <<>>) =>
          i = 0 /\ ok = 0 /\ bad = 0 /\ ts = <<>> /\ offsets = <<>>

SameScanAfterAnother ==
    /\ pc = "done"
    /\ Len(calls) = 2
    /\ calls[1].data = data
    /\ calls[1].frame_size = frame_size
    /\ calls[2].data # data
    /\ calls[2].outcome.pc = "raised"
    /\ ok = 1
    /\ bad = 1

\* index x after 8 rounds of shift right with xor of 0xEDB88320 when the
\* bit shifted out was 1
RoundsOfIndex == [x \in 0..255 |-> RefRounds(U32(0, x), 8)]

TableAsBuilt ==
    /\ DOMAIN CRC32_TAB = 0..255
    /\ Cardinality(DOMAIN CRC32_TAB) = 256
    /\ \A x \in 0..255 : IsU32(CRC32_TAB[x]) /\ CRC32_TAB[x] = RoundsOfIndex[x]

\* C18: the table has exactly 256 entries, entry x is the 32-bit result of
\* 8 rounds of shift right with conditional xor of 0xEDB88320 applied to x
\* alone, and no step of crc32_fw or analyze_file changes the table.
TableBuiltOnceReadOnly ==
    /\ []TableAsBuilt
    /\ [][CRC32_TAB' = CRC32_TAB]_vars

TableAfterThreeFrames ==
    /\ Printed
    /\ ok = 3
    /\ CRC32_TAB[0] = U32(0, 0)
    /\ CRC32_TAB[1] = U32(30471, 12438)
    /\ CRC32_TAB[128] = POLY
    /\ CRC32_TAB[255] = U32(11522, 61325)

----------------------------------------------------------------------------
(* Claims about find_offsets.                                              *)

\* the offsets at which p lies in d
Occurrences(d, p) ==
    {k \in 0..(Len(d) - Len(p)) : \A j \in 1..Len(p) : d[k + j] = p[j]}

FindResult ==
    LET occ == Occurrences(data, pattern)
        total == Cardinality(occ)
    IN  /\ \A j \in 1..(Len(out) - 1) : out[j] < out[j + 1]
        /\ \A j \in 1..Len(out) : out[j] \in occ
        /\ Len(out) = IF limit <= 0 THEN total ELSE Min(limit, total)
        /\ \A k \in occ :
              (\E j \in 1..Len(out) : out[j] = k) \/ (\A j \in 1..Len(out) : out[j] < k)

\* C19: find_offsets returns, strictly increasing, the start offsets of
\* the occurrences of pattern in data, overlapping ones included: all of
\* them when limit <= 0, the first min(limit, total) when limit > 0; and
\* it returns for every input.
FindOffsetsCorrect ==
    /\ [](fpc = "returned" => FindResult)
    /\ <>(fpc = "returned")

OverlappingFound ==
    /\ fpc = "returned"
    /\ data = <<165, 165, 165, 165>>
    /\ pattern = <<165, 165>>
    /\ limit = 2
    /\ out = <<0, 1>>

----------------------------------------------------------------------------
(* Claims about the end of the scan and its counts.                        *)

\* a run of the loop body leaves the cursor further on than it found it
CursorAdvances == visited' # visited => i' > i

\* C21: for every buffer and every frame size >= 1 the scan runs to the
\* end of its loop: every run of the loop body moves the cursor forward,
\* no run of the loop body is left by an exception, the loop is left with
\* the cursor beyond L - frame_size, and the loop body runs at most
\* L - frame_size + 1 times (not at all when the buffer is shorter than one
\* frame).
ScanTerminates ==
    /\ [](frame_size >= 1 =>
            /\ pc # "raised"
            /\ Len(visited) <= Max(0, Len(data) - frame_size + 1)
            /\ pc = "done" => i > Len(data) - frame_size)
    /\ [][frame_size >= 1 => CursorAdvances]_vars

\* p lies after the first byte and before the end of a recorded frame
InsideReported(p) ==
    \E j \in 1..Len(offsets) : offsets[j] < p /\ p < offsets[j] + frame_size

\* the positions at which a frame fits and that lie inside no recorded frame
OutsidePositions ==
    {p \in 0..(Len(data) - frame_size) : ~InsideReported(p)}

\* C22: no position strictly inside a recorded frame is ever examined by
\* the loop, so a header lying there adds neither a valid frame nor a bad
\* hit: the positions examined are those outside the recorded frames, the
\* valid count is the number of them at which a frame validates and the
\* bad-hit count the number of the others at which the header lies; and no
\* two recorded frames overlap.
NoRescanInsideValidFrame ==
    /\ \A k \in 1..Len(visited) : ~InsideReported(visited[k])
    /\ \A j \in 1..(Len(offsets) - 1) : offsets[j] + frame_size <= offsets[j + 1]
    /\ Returned =>
          LET headers == {p \in OutsidePositions :
                             frame_size >= 4 /\ HeaderAt(data, p)}
              frames == {p \in headers : FrameValidAt(data, frame_size, p)}
          IN  /\ {visited[k] : k \in 1..Len(visited)} = OutsidePositions
              /\ ok = Cardinality(frames)
              /\ bad = Cardinality(headers) - Cardinality(frames)

NestedFrameSkipped ==
    /\ Returned
    /\ frame_size = DEFAULT_FRAME_SIZE
    /\ offsets = <<0>>
    /\ FrameValidAt(data, frame_size, NestedAt)
    /\ ok = 1
    /\ bad = 0

----------------------------------------------------------------------------
(* Claims about chained crc32_fw calls.                                    *)

\* crc32_fw(a ++ b, seed) == crc32_fw(b, crc32_fw(a, seed)) with buf split
\* into a, its first k bytes, and b, the rest
ChainedAt(k) ==
    crc32_fw(buf, seed) =
        crc32_fw(SubSeq(buf, k + 1, Len(buf)), crc32_fw(SubSeq(buf, 1, k), seed))

\* C23: for every split of the buffer into a and b and every 32-bit seed,
\* crc32_fw(a ++ b, seed) equals crc32_fw(b, crc32_fw(a, seed)): the
\* accumulator after the first n bytes is what a call on those bytes
\* returns, a call on the rest seeded with it returns what the whole call
\* returns, and the value returned is the same for every split.
CrcStreamable ==
    /\ cpc = "loop" =>
          /\ crc32_fw(SubSeq(buf, 1, n), seed) = crc
          /\ ChainedAt(n)
    /\ cpc = "returned" =>
          \A k \in 0..Len(buf) : ChainedAt(k) /\ crc = crc32_fw(buf, seed)

ThreeBytesChained ==
    /\ cpc = "returned"
    /\ buf = <<165, 1, 255>>
    /\ seed = FW_SEED
    /\ crc = U32(60008, 11120)
    /\ crc32_fw(<<255>>, crc32_fw(<<165, 1>>, seed)) = crc
    /\ crc32_fw(<<165, 1>>, seed) = U32(48492, 18811)

----------------------------------------------------------------------------
(* Claims about the counts kept by the scan.                               *)

\* C24: whenever the loop guard is evaluated and at return the valid-frame
\* count is the length of the counter list and of the offset list, and
\* ok * frame_size + bad <= L: a valid frame takes frame_size cursor
\* positions and a bad hit one, so their sum never passes the cursor, and
\* the cursor never passes the end of the buffer.
CountsAgree ==
    pc \in {"scan", "done"} =>
        /\ ok = Len(ts)
        /\ ok = Len(offsets)
        /\ (ok * frame_size) + bad <= i
        /\ i <= Len(data)
        /\ (ok * frame_size) + bad <= Len(data)

TwoFramesOneBadHitCounted ==
    /\ Returned
    /\ frame_size = DEFAULT_FRAME_SIZE
    /\ ok = 2
    /\ bad = 1
    /\ Len(ts) = 2
    /\ Len(offsets) = 2
    /\ Len(data) = (2 * DEFAULT_FRAME_SIZE) + 6

----------------------------------------------------------------------------
(* analyze_file called on a capture and then on the same capture after     *)
(* more bytes have been written to it.                                     *)

\* the frame sizes of the calls: below a checksum, below a header plus a
\* checksum, and those of the frames
GrownFrameSizes == {1, 3, 4} \cup FrameSizes

\* the captures when complete: a false header, a valid frame and a corrupt
\* one; a frame with a second frame starting inside it, the outer one valid
\* or damaged; for the small frame sizes a first header byte and a header
\* with a checksum
GrownCaptures(fs) ==
    IF fs \in FrameSizes
    THEN {<<9>> \o FwHeader \o <<0>> \o FwFrame(fs, p) \o c :
             p \in {q \in Payloads : q.fill = 17}, c \in CorruptFrames[fs]}
         \cup {b \in NestedBuffers[fs] : b[6] # 255}
    ELSE {<<165, 0>>, <<0>> \o FwHeader \o SmallChecksum}

\* a is the start of b
IsPrefix(a, b) == Len(a) <= Len(b) /\ SubSeq(b, 1, Len(a)) = a

InitGrown ==
    /\ CRC32_TAB = build_crc32_table
    /\ CrcIdle
    /\ MainIdle
    /\ FindIdle
    /\ VelIdle
    /\ LeadIdle
    /\ frame_size \in GrownFrameSizes
    /\ \E S \in GrownCaptures(frame_size) :
          \E k \in 0..(Len(S) - 1) : data = SubSeq(S, 1, k)
    /\ i = 0
    /\ ok = 0
    /\ bad = 0
    /\ ts = <<>>
    /\ offsets = <<>>
    /\ visited = <<>>
    /\ pc = "scan"

\* the call has ended and the capture has grown, by one byte or to its
\* full length; analyze_file is called on it: data = path.read_bytes(),
\* ok = 0, bad = 0, ts = [], offsets = [], i = 0
CallOnGrown ==
    /\ pc \in {"done", "raised"}
    /\ calls = <<>>
    /\ calls' = <<[data |-> data, frame_size |-> frame_size,
                   outcome |-> Outcome(Locals), locals |-> Locals]>>
    /\ \E S \in GrownCaptures(frame_size) :
          /\ IsPrefix(data, S)
          /\ \E k \in {Len(data) + 1, Len(S)} :
                /\ k <= Len(S)
                /\ data' = data \o SubSeq(S, Len(data) + 1, k)
    /\ SetLocals(ScanStart)
    /\ UNCHANGED <<CRC32_TAB, crcVars, frame_size, report, findVars, velVars, leadVars>>

NextGrown == Advance \/ BadHit \/ ValidFrame \/ Return \/ Raise \/ CallOnGrown

SpecGrown == InitGrown /\ [][NextGrown]_vars

\* the loop body ran at the cursor and put the position into one of its
\* three classes
Classes == {"skip", "bad", "valid"}

\* C25: for a buffer B and an extension B ++ T scanned with the same frame
\* size, both scans returning: the offsets and the counters of B are the
\* first offsets and counters of B ++ T, the bad-hit count of B is at most
\* that of B ++ T, the positions examined in B are the first positions
\* examined in B ++ T, and every position that the scan of B classified
\* (skipped, bad hit or valid frame) has the same class in B ++ T.
PrefixStable ==
    Len(calls) = 1 =>
        LET b == calls[1].locals
            B == calls[1].data
        IN  /\ IsPrefix(B, data)
            /\ Len(B) < Len(data)
            /\ \A k \in 1..Len(b.visited) :
                  Kind(B, frame_size, b.visited[k]) \in Classes =>
                      Kind(data, frame_size, b.visited[k]) = Kind(B, frame_size, b.visited[k])
            /\ (b.pc = "done" /\ pc = "done") =>
                  /\ IsPrefix(b.offsets, offsets)
                  /\ IsPrefix(b.ts, ts)
                  /\ b.bad <= bad
                  /\ b.ok <= ok
                  /\ IsPrefix(b.visited, visited)

GrownCaptureKeepsFirstFrame ==
    /\ Len(calls) = 1
    /\ calls[1].locals.pc = "done"
    /\ pc = "done"
    /\ frame_size = DEFAULT_FRAME_SIZE
    /\ calls[1].locals.offsets = <<6>>
    /\ calls[1].locals.bad = 1
    /\ offsets = <<6>>
    /\ bad = 2
    /\ Len(data) = Len(calls[1].data) + 1

----------------------------------------------------------------------------
(* odometer_vel_rotate_check.py: count_keyword_logs, one line of a log per *)
(* step, and the classify call of print_report.  A str is the sequence of  *)
(* its characters; a line of a log is the timestamp that TS_RE and         *)
(* parse_ts read at its start (<<>> when TS_RE does not match) and its     *)
(* text.                                                                   *)

UPPER == <<"A", "B", "C", "D", "E", "F", "G", "H", "I", "J", "K", "L", "M",
          "N", "O", "P", "Q", "R", "S", "T", "U", "V", "W", "X", "Y", "Z">>

LOWER == <<"a", "b", "c", "d", "e", "f", "g", "h", "i", "j", "k", "l", "m",
          "n", "o", "p", "q", "r", "s", "t", "u", "v", "w", "x", "y", "z">>

\* str.lower() on one character
LowerChar(c) ==
    IF \E k \in 1..Len(UPPER) : UPPER[k] = c
    THEN LOWER[CHOOSE k \in 1..Len(UPPER) : UPPER[k] = c]
    ELSE c

\* line.lower()
Lowered(text) == [j \in 1..Len(text) |-> LowerChar(text[j])]

\* k in lowered
Contains(text, k) ==
    \E a \in 0..(Len(text) - Len(k)) : SubSeq(text, a + 1, a + Len(k)) = k

WHITESPACE == {" ", "\t", "\n", "\r"}

\* line.rstrip()
RECURSIVE Rstrip(_)
Rstrip(text) ==
    IF text # <<>> /\ text[Len(text)] \in WHITESPACE
    THEN Rstrip(SubSeq(text, 1, Len(text) - 1))
    ELSE text

NO_ODOM == <<"n", "o", " ", "o", "d", "o", "m">>

TRANSFORM_FAIL == <<"T", "r", "a", "n", "s", "f", "o", "r", "m", " ", "f", "a", "i", "l">>

ENCODER_TIMEOUT == <<"e", "n", "c", "o", "d", "e", "r", " ", "t", "i", "m", "e", "o", "u", "t">>

NO_IMU == <<"n", "o", " ", "i", "m", "u">>

\* keywords = ("no odom", "Transform fail", "encoder timeout", "no imu")
keywords == <<NO_ODOM, TRANSFORM_FAIL, ENCODER_TIMEOUT, NO_IMU>>

\* the keys classify looks up: "no odom" and "transform fail"
CLASSIFY_NO_ODOM == <<"n", "o", " ", "o", "d", "o", "m">>

CLASSIFY_TRANSFORM_FAIL == <<"t", "r", "a", "n", "s", "f", "o", "r", "m", " ", "f", "a", "i", "l">>

\* for k in keywords: if k in lowered: ... break
\* the number of the first keyword from the j-th on that lies in the
\* lowered text, 0 when none does
RECURSIVE FirstKeyword(_, _)
FirstKeyword(lowered, j) ==
    IF j > Len(keywords) THEN 0
    ELSE IF Contains(lowered, keywords[j]) THEN j
    ELSE FirstKeyword(lowered, j + 1)

\* in_range(ts, start, end)
in_range(t, s, e) ==
    IF s # <<>> /\ t < s[1] THEN FALSE
    ELSE IF e # <<>> /\ t > e[1] THEN FALSE
    ELSE TRUE

\* hit_count[k] += 1 on a defaultdict(int)
Bump(hc, k) ==
    [x \in (DOMAIN hc) \cup {k} |->
        IF x = k THEN (IF k \in DOMAIN hc THEN hc[k] ELSE 0) + 1 ELSE hc[x]]

\* keyword_hits.get(k, 0)
Get(hc, k) == IF k \in DOMAIN hc THEN hc[k] ELSE 0

\* if len(hit_lines) < 20
KEEP_LINES == 20

\* int(stats.odometer_total * 0.01): exact for the totals used here
Percent(total) == total \div 100

\* classify(stats, keyword_hits): the decision and the reasons
classify(st, keyword_hits) ==
    IF st.odometer_total = 0
    THEN [decision |-> "abnormal: no Odometer packets in the window",
          reasons |-> <<[why |-> "Odometer count is 0"]>>]
    ELSE LET fail_high == st.fail_total > 0
             jump_high == st.cycle_jump_count > Max(2, Percent(st.odometer_total))
             no_odom_hit ==
                 \/ Get(keyword_hits, CLASSIFY_NO_ODOM) > 0
                 \/ Get(keyword_hits, CLASSIFY_TRANSFORM_FAIL) > 0
             r1 == IF st.fail_total > 0
                   THEN <<[why |-> "odo_update_fail", count |-> st.fail_total]>>
                   ELSE <<>>
             r2 == IF jump_high
                   THEN <<[why |-> "cycle jumps", count |-> st.cycle_jump_count,
                           step |-> st.cycle_max_step]>>
                   ELSE <<>>
             r3 == IF no_odom_hit
                   THEN <<[why |-> "no odom or Transform fail in warning/error"]>>
                   ELSE <<>>
             rs == r1 \o r2 \o r3
         IN  IF (fail_high /\ jump_high) \/ no_odom_hit
             THEN [decision |-> "abnormal tendency: upstream Odometer update abnormal",
                   reasons |-> rs]
             ELSE IF /\ st.vel_rotate_zero > 0
                     /\ st.fail_total = 0
                     /\ st.cycle_jump_count <= 1
             THEN [decision |-> "normal tendency: vel_rotate 0 omitted by proto3",
                   reasons |-> Append(rs, [why |-> "vel_rotate zero samples",
                                           count |-> st.vel_rotate_zero])]
             ELSE [decision |-> "grey zone",
                   reasons |-> Append(rs, [why |-> "evidence does not converge"])]

----------------------------------------------------------------------------
(* Inputs of odometer_vel_rotate_check.py: what analyze_log counted, the   *)
(* warning and error logs, the time window.                                *)

\* texts of log lines
LineTexts ==
    { <<"n", "o", " ", "o", "d", "o", "m", "\n">>,
      <<"N", "o", " ", "O", "d", "o", "m", " ", "d", "a", "t", "a", " ", "\n">>,
      <<"T", "r", "a", "n", "s", "f", "o", "r", "m", " ", "f", "a", "i", "l", "\n">>,
      <<"t", "r", "a", "n", "s", "f", "o", "r", "m", " ", "f", "a", "i", "l", "\n">>,
      <<"e", "n", "c", "o", "d", "e", "r", " ", "t", "i", "m", "e", "o", "u", "t", "\n">>,
      <<"n", "o", " ", "i", "m", "u", ",", " ", "n", "o", " ", "o", "d", "o", "m", "\n">>,
      <<"a", "l", "l", " ", "f", "i", "n", "e", "\n">> }

\* times: inside the window 1..10, after it, and no timestamp on the line
LineTimes == {<<>>, <<5>>, <<15>>}

LogLines == {[ts |-> t, text |-> x] : t \in LineTimes, x \in LineTexts}

\* more lines than hit_lines keeps
LongLog == [j \in 1..(KEEP_LINES + 1) |-> [ts |-> <<5>>, text |-> <<"n", "o", " ", "o", "d", "o", "m", "\n">>]]

LogFiles ==
    {<<>>, LongLog} \cup {<<l>> : l \in LogLines}
        \cup {<<a, b>> : a \in {l \in LogLines : l.ts = <<5>> /\ Len(l.text) = 9},
                         b \in {l \in LogLines : l.ts # <<15>> /\ Len(l.text) = 15}}

\* --warning or --error not given: the path is None
NotGiven == [given |-> FALSE, exists |-> FALSE, lines |-> <<>>]

\* a path at which there is no file
Missing == [given |-> TRUE, exists |-> FALSE, lines |-> <<>>]

LogFile(ls) == [given |-> TRUE, exists |-> TRUE, lines |-> ls]

\* [args.warning, args.error_log]
PathLists ==
    {<<LogFile(f), NotGiven>> : f \in LogFiles}
        \cup {<<Missing, LogFile(f)>> : f \in LogFiles}

\* --start and --end
Windows == {<<<<>>, <<>>>>, <<<<1>>, <<10>>>>, <<<<10>>, <<>>>>}

StatsInputs ==
    {[DefaultStats EXCEPT !.odometer_total = o, !.fail_total = c[1],
                          !.cycle_jump_count = c[2], !.cycle_max_step = c[3],
                          !.vel_rotate_zero = z] :
        o \in {0, 1, 400}, z \in {0, 7},
        c \in {<<0, 0, 1>>, <<0, 1, 2>>, <<2, 3, 50>>, <<2, 5, 50>>}}

InitVel ==
    /\ CRC32_TAB = build_crc32_table
    /\ CrcIdle
    /\ ScanIdle
    /\ MainIdle
    /\ FindIdle
    /\ LeadIdle
    /\ paths \in PathLists
    /\ \E w \in Windows : start = w[1] /\ end = w[2]
    /\ stats \in StatsInputs
    /\ hit_count = <<>>
    /\ hit_lines = <<>>
    /\ path_no = 0
    /\ line_no = 0
    /\ verdict = <<>>
    /\ vpc = "count"

\* the path the outer loop is at, the line the inner loop is at
Path == paths[path_no + 1]
Line == Path.lines[line_no + 1]

AtLine ==
    /\ vpc = "count"
    /\ path_no < Len(paths)
    /\ Path.given
    /\ Path.exists
    /\ line_no < Len(Path.lines)

\* if not path: continue;  if not p.exists(): continue
SkipPath ==
    /\ vpc = "count"
    /\ path_no < Len(paths)
    /\ ~Path.given \/ ~Path.exists
    /\ path_no' = path_no + 1
    /\ line_no' = 0
    /\ UNCHANGED <<CRC32_TAB, crcVars, scanVars, mainVars, findVars, leadVars,
                   paths, start, end, stats, hit_count, hit_lines, verdict, vpc>>

\* the line has a timestamp outside the window: continue
LineOutOfWindow ==
    /\ AtLine
    /\ Line.ts # <<>>
    /\ ~in_range(Line.ts[1], start, end)
    /\ line_no' = line_no + 1
    /\ UNCHANGED <<CRC32_TAB, crcVars, scanVars, mainVars, findVars, leadVars,
                   paths, start, end, stats, hit_count, hit_lines, path_no,
                   verdict, vpc>>

\* no keyword lies in the lowered line
LineNoKeyword ==
    /\ AtLine
    /\ Line.ts # <<>> => in_range(Line.ts[1], start, end)
    /\ FirstKeyword(Lowered(Line.text), 1) = 0
    /\ line_no' = line_no + 1
    /\ UNCHANGED <<CRC32_TAB, crcVars, scanVars, mainVars, findVars, leadVars,
                   paths, start, end, stats, hit_count, hit_lines, path_no,
                   verdict, vpc>>

\* hit_count[k] += 1; hit_lines.append(line.rstrip()) while fewer than 20
\* are kept; break
LineHit ==
    /\ AtLine
    /\ Line.ts # <<>> => in_range(Line.ts[1], start, end)
    /\ FirstKeyword(Lowered(Line.text), 1) > 0
    /\ hit_count' = Bump(hit_count, keywords[FirstKeyword(Lowered(Line.text), 1)])
    /\ hit_lines' = IF Len(hit_lines) < KEEP_LINES
                    THEN Append(hit_lines, [Line EXCEPT !.text = Rstrip(@)])
                    ELSE hit_lines
    /\ line_no' = line_no + 1
    /\ UNCHANGED <<CRC32_TAB, crcVars, scanVars, mainVars, findVars, leadVars,
                   paths, start, end, stats, path_no, verdict, vpc>>

\* the file is read to its end: next path
PathDone ==
    /\ vpc = "count"
    /\ path_no < Len(paths)
    /\ Path.given
    /\ Path.exists
    /\ line_no = Len(Path.lines)
    /\ path_no' = path_no + 1
    /\ line_no' = 0
    /\ UNCHANGED <<CRC32_TAB, crcVars, scanVars, mainVars, findVars, leadVars,
                   paths, start, end, stats, hit_count, hit_lines, verdict, vpc>>

\* return hit_count, hit_lines
CountReturn ==
    /\ vpc = "count"
    /\ path_no = Len(paths)
    /\ vpc' = "counted"
    /\ UNCHANGED <<CRC32_TAB, crcVars, scanVars, mainVars, findVars, leadVars,
                   paths, start, end, stats, hit_count, hit_lines, path_no,
                   line_no, verdict>>

\* print_report: decision, reasons = classify(stats, keyword_hits)
Classify ==
    /\ vpc = "counted"
    /\ verdict' = <<classify(stats, hit_count)>>
    /\ vpc' = "reported"
    /\ UNCHANGED <<CRC32_TAB, crcVars, scanVars, mainVars, findVars, leadVars,
                   paths, start, end, stats, hit_count, hit_lines, path_no,
                   line_no>>

NextVel ==
    \/ SkipPath
    \/ LineOutOfWindow
    \/ LineNoKeyword
    \/ LineHit
    \/ PathDone
    \/ CountReturn
    \/ Classify

SpecVel == InitVel /\ [][NextVel]_vars

----------------------------------------------------------------------------
(* Claims about odometer_vel_rotate_check.py.                              *)

\* the lines of the warning and error logs that carry a timestamp inside
\* the time window
LinesInWindow ==
    {l \in UNION {{paths[k].lines[j] : j \in 1..Len(paths[k].lines)} :
                     k \in {x \in 1..Len(paths) : paths[x].given /\ paths[x].exists}} :
        l.ts # <<>> /\ in_range(l.ts[1], start, end)}

ABNORMAL_TENDENCY == "abnormal tendency: upstream Odometer update abnormal"

\* the report is made, some Odometer packet was counted, and a line in
\* the window contains k: k was counted, and classify gave the
\* abnormal-tendency decision with the reason that names the keywords
HitRecordedAndAbnormal(k) ==
    (/\ vpc = "reported"
     /\ stats.odometer_total >= 1
     /\ \E l \in LinesInWindow : Contains(l.text, k)) =>
        /\ Get(hit_count, k) >= 1
        /\ \E l \in LinesInWindow :
              /\ Contains(l.text, k)
              /\ \E j \in 1..Len(hit_lines) : hit_lines[j] = [l EXCEPT !.text = Rstrip(@)]
        /\ verdict[1].decision = ABNORMAL_TENDENCY
        /\ \E j \in 1..Len(verdict[1].reasons) :
              verdict[1].reasons[j].why = "no odom or Transform fail in warning/error"

\* C26: with at least one Odometer packet in the window, a warning or
\* error log line in the window that contains "no odom" or "Transform fail"
\* is recorded by count_keyword_logs as a hit of that keyword, and classify
\* returns the abnormal-tendency decision with the matching reason.
KeywordHitMeansAbnormal ==
    /\ HitRecordedAndAbnormal(NO_ODOM)
    /\ HitRecordedAndAbnormal(TRANSFORM_FAIL)

----------------------------------------------------------------------------
(* odometer_root_cause_stats.py: calc_lead_ratio, one fail time per step.  *)
(* A datetime is its timestamp() in whole seconds, an integer, so that the *)
(* float subtraction and comparisons of the code are exact; the float      *)
(* returned is the pair of the dividend and the divisor of line 198.       *)

\* bisect.bisect_left(a, x, lo, hi): while lo < hi: mid = (lo + hi) // 2;
\* if a[mid] < x: lo = mid + 1  else: hi = mid
RECURSIVE BisectLeft(_, _, _, _)
BisectLeft(a, x, lo, hi) ==
    IF lo >= hi THEN lo
    ELSE LET mid == (lo + hi) \div 2
         IN  IF a[mid + 1] < x THEN BisectLeft(a, x, mid + 1, hi)
             ELSE BisectLeft(a, x, lo, mid)

\* idx = bisect.bisect_left(ev, ft)
Bisect(a, x) == BisectLeft(a, x, 0, Len(a))

\* x put into the ascending list a, after the entries not greater than it
RECURSIVE Insert(_, _)
Insert(a, x) ==
    IF a = <<>> THEN <<x>>
    ELSE IF x < a[1] THEN <<x>> \o a
    ELSE <<a[1]>> \o Insert(Tail(a), x)

\* sorted(...)
RECURSIVE Sorted(_)
Sorted(a) == IF a = <<>> THEN <<>> ELSE Insert(Sorted(Tail(a)), a[1])

\* prev = ev[idx - 1] if idx > 0 else None;
\* prev is not None and 0.0 <= ft - prev <= window_sec
LeadsFail(sortedEv, ft, w) ==
    LET idx == Bisect(sortedEv, ft)
    IN  /\ idx > 0
        /\ 0 <= ft - sortedEv[idx]
        /\ ft - sortedEv[idx] <= w

MaxTimes == 2

LeadTimes == {0, 1, 2, 4}

\* --lead-window-sec
LeadWindows == {0, 1, 2}

InitLead ==
    /\ CRC32_TAB = build_crc32_table
    /\ CrcIdle
    /\ ScanIdle
    /\ MainIdle
    /\ FindIdle
    /\ VelIdle
    /\ event_times \in SeqsUpTo(LeadTimes, MaxTimes)
    /\ fail_times \in SeqsUpTo(LeadTimes, MaxTimes)
    /\ window_sec \in LeadWindows
    /\ ev = <<>>
    /\ hit = 0
    /\ fail_no = 0
    /\ ratio = <<>>
    /\ lpc = "call"

\* if not fail_times or not event_times: return 0.0
LeadEmpty ==
    /\ lpc = "call"
    /\ fail_times = <<>> \/ event_times = <<>>
    /\ ratio' = <<[num |-> 0, den |-> 1]>>
    /\ lpc' = "returned"
    /\ UNCHANGED <<CRC32_TAB, crcVars, scanVars, mainVars, findVars, velVars,
                   event_times, fail_times, window_sec, ev, hit, fail_no>>

\* ev = sorted(t.timestamp() for t in event_times); hit = 0
LeadSort ==
    /\ lpc = "call"
    /\ fail_times # <<>>
    /\ event_times # <<>>
    /\ ev' = Sorted(event_times)
    /\ hit' = 0
    /\ lpc' = "loop"
    /\ UNCHANGED <<CRC32_TAB, crcVars, scanVars, mainVars, findVars, velVars,
                   event_times, fail_times, window_sec, fail_no, ratio>>

\* for f in fail_times: the event before it is within the window: hit += 1
LeadHit ==
    /\ lpc = "loop"
    /\ fail_no < Len(fail_times)
    /\ LeadsFail(ev, fail_times[fail_no + 1], window_sec)
    /\ hit' = hit + 1
    /\ fail_no' = fail_no + 1
    /\ UNCHANGED <<CRC32_TAB, crcVars, scanVars, mainVars, findVars, velVars,
                   event_times, fail_times, window_sec, ev, ratio, lpc>>

\* for f in fail_times: no event before it, or none within the window
LeadMiss ==
    /\ lpc = "loop"
    /\ fail_no < Len(fail_times)
    /\ ~LeadsFail(ev, fail_times[fail_no + 1], window_sec)
    /\ fail_no' = fail_no + 1
    /\ UNCHANGED <<CRC32_TAB, crcVars, scanVars, mainVars, findVars, velVars,
                   event_times, fail_times, window_sec, ev, hit, ratio, lpc>>

\* return hit / len(fail_times)
LeadReturn ==
    /\ lpc = "loop"
    /\ fail_no = Len(fail_times)
    /\ ratio' = <<[num |-> hit, den |-> Len(fail_times)]>>
    /\ lpc' = "returned"
    /\ UNCHANGED <<CRC32_TAB, crcVars, scanVars, mainVars, findVars, velVars,
                   event_times, fail_times, window_sec, ev, hit, fail_no>>

NextLead == LeadEmpty \/ LeadSort \/ LeadHit \/ LeadMiss \/ LeadReturn

SpecLead == InitLead /\ [][NextLead]_vars

----------------------------------------------------------------------------
(* Claims about calc_lead_ratio.                                           *)

\* the fail times (by position) with some event at most w before them,
\* an event at the same time included
LedFails ==
    {k \in 1..Len(fail_times) :
        \E j \in 1..Len(event_times) :
            /\ 0 <= fail_times[k] - event_times[j]
            /\ fail_times[k] - event_times[j] <= window_sec}

\* C27: calc_lead_ratio returns the number of fail times f with some event
\* time e such that 0 <= f - e <= window_sec, divided by the number of fail
\* times; 0 when either list is empty; and a value within [0, 1].
LeadRatioCounts ==
    lpc = "returned" =>
        /\ 0 <= ratio[1].num
        /\ ratio[1].num <= ratio[1].den
        /\ (fail_times = <<>> \/ event_times = <<>>) => ratio[1].num = 0
        /\ (fail_times # <<>> /\ event_times # <<>>) =>
              ratio[1].num * Len(fail_times) = Cardinality(LedFails) * ratio[1].den

====
